---- MODULE Spec2Model ----
(***************************************************************************)
(* World Clock for Remote Workers: the App component (App.jsx), the        *)
(* meeting-overlap panel (MeetingPanel.jsx) and the timezone utilities     *)
(* (timeUtils.js).                                                         *)
(*                                                                         *)
(* Time is counted in minutes since the epoch (the code counts             *)
(* milliseconds; every instant the panel handles is a whole minute, and    *)
(* the sub-minute part of "now" is carried separately in now.ms).          *)
(***************************************************************************)
EXTENDS Integers, Sequences, FiniteSets, TLC

VARIABLES
    hourCycle,      \* platform: how Intl prints the midnight hour with hour12:false
    enumeration,    \* platform: the list Intl.supportedValuesOf('timeZone') returns
    now,            \* host clock: [min |-> minutes since epoch, ms |-> ms within the minute]
    userTimezone,   \* App state (App.jsx:30)
    zones,          \* App state (App.jsx:48): the catalog
    meetingTarget,  \* App state (App.jsx:52): "" stands for null
    workWindow,     \* App state (App.jsx:53): [start, end]
    panel,          \* what MeetingPanel computed at its last render
    theme,          \* App state (App.jsx:27)
    pinned,         \* App state (App.jsx:39): the list of pinned zone ids
    filterContinent,\* App state (App.jsx:49)
    query,          \* App state (App.jsx:51): the characters typed in the search box
    storage,        \* localStorage: the values under 'wc_theme' and 'favZones'
    effects,        \* the effects of the last render that have not run yet
    called,         \* the last direct use of an exported function or component
    uncaught        \* the error that escaped a render or an effect, "" for none

\* the preferences and the filters of App
prefs == <<theme, pinned, filterContinent, query, storage, effects>>

vars == <<hourCycle, enumeration, now, userTimezone, zones, meetingTarget, workWindow, panel,
          theme, pinned, filterContinent, query, storage, effects, called, uncaught>>

-----------------------------------------------------------------------------
(* Bounds of the model *)

\* first calendar day (days since the epoch) the host clock can show
FirstDay == 20177
\* number of consecutive days the host clock runs through
MaxDays == 1
\* free slots at each end of a synthetic overlap signal
SigEdge == 4
\* longest platform enumeration handed to the catalog builder
MaxEnum == 3

-----------------------------------------------------------------------------
(* Program constants *)

SlotsPerDay == 96
SlotMinutes == 15
MinutesPerDay == 24 * 60
HalfDay == 12 * 60

-----------------------------------------------------------------------------
(* The platform: zone database and Intl formatting *)

ZoneIds ==
    {"Africa/Abidjan", "Asia/Kathmandu", "Asia/Kolkata", "Atlantic/Reykjavik",
     "Europe/London", "Pacific/Fiji", "Pacific/Gambier", "Pacific/Noumea"}

\* two zones of the Americas, their ids written with an underscore
AmericaZones == {"America/New_York", "America/Sao_Paulo"}

\* the ids the platform's zone database knows
KnownZones == ZoneIds \cup AmericaZones

\* an id the database does not know
UnknownZone == "Invalid/Zone"

\* new Intl.DateTimeFormat('en-US', {timeZone, ...}) throws a RangeError for
\* an id the database does not know
IntlRejects(timeZone) == timeZone \notin KnownZones

\* the instant Europe/London moves its clocks forward: 01:00 UTC on 30 March
\* 2025, day 20177 of the epoch
DstStart == 20177 * MinutesPerDay + 60

\* a zone's true displacement from UTC, in minutes, at the instant utcMin
PlatformOffset(tz, utcMin) ==
    CASE tz = "Africa/Abidjan"     -> 0
      [] tz = "Atlantic/Reykjavik" -> 0
      [] tz = "Europe/London"      -> IF utcMin >= DstStart THEN 60 ELSE 0
      [] tz = "Asia/Kolkata"       -> 330
      [] tz = "Asia/Kathmandu"     -> 345
      [] tz = "Pacific/Noumea"     -> 660
      [] tz = "Pacific/Fiji"       -> 720
      [] tz = "Pacific/Gambier"    -> 0 - 540
      [] tz = "America/New_York"   -> 0 - 240
      [] tz = "America/Sao_Paulo"  -> 0 - 180

\* hour12:false prints midnight as 00 on an h23 platform and as 24 on an h24 one
HourCycles == {"h23", "h24"}

FormatHour(h) == IF hourCycle = "h24" /\ h = 0 THEN 24 ELSE h

\* the characters of a zone id
Chars(z) ==
    CASE z = "Africa/Abidjan" -> <<"A", "f", "r", "i", "c", "a", "/", "A", "b", "i", "d", "j", "a", "n">>
      [] z = "Asia/Kathmandu" -> <<"A", "s", "i", "a", "/", "K", "a", "t", "h", "m", "a", "n", "d", "u">>
      [] z = "Asia/Kolkata" -> <<"A", "s", "i", "a", "/", "K", "o", "l", "k", "a", "t", "a">>
      [] z = "Atlantic/Reykjavik" -> <<"A", "t", "l", "a", "n", "t", "i", "c", "/", "R", "e", "y", "k", "j", "a", "v", "i", "k">>
      [] z = "Europe/London" -> <<"E", "u", "r", "o", "p", "e", "/", "L", "o", "n", "d", "o", "n">>
      [] z = "Pacific/Gambier" -> <<"P", "a", "c", "i", "f", "i", "c", "/", "G", "a", "m", "b", "i", "e", "r">>
      [] z = "Pacific/Fiji" -> <<"P", "a", "c", "i", "f", "i", "c", "/", "F", "i", "j", "i">>
      [] z = "Pacific/Noumea" -> <<"P", "a", "c", "i", "f", "i", "c", "/", "N", "o", "u", "m", "e", "a">>
      [] z = "America/New_York" -> <<"A", "m", "e", "r", "i", "c", "a", "/", "N", "e", "w", "_", "Y", "o", "r", "k">>
      [] z = "America/Sao_Paulo" -> <<"A", "m", "e", "r", "i", "c", "a", "/", "S", "a", "o", "_", "P", "a", "u", "l", "o">>
      [] z = "Antarctica/Troll" -> <<"A", "n", "t", "a", "r", "c", "t", "i", "c", "a", "/", "T", "r", "o", "l", "l">>
      [] z = "Australia/Sydney" -> <<"A", "u", "s", "t", "r", "a", "l", "i", "a", "/", "S", "y", "d", "n", "e", "y">>
      [] z = "America/Argentina/Buenos_Aires" -> <<"A", "m", "e", "r", "i", "c", "a", "/", "A", "r", "g", "e", "n", "t", "i", "n", "a", "/", "B", "u", "e", "n", "o", "s", "_", "A", "i", "r", "e", "s">>
      [] z = "America/Bogota" -> <<"A", "m", "e", "r", "i", "c", "a", "/", "B", "o", "g", "o", "t", "a">>
      [] z = "America/Lima" -> <<"A", "m", "e", "r", "i", "c", "a", "/", "L", "i", "m", "a">>
      [] z = "America/Caracas" -> <<"A", "m", "e", "r", "i", "c", "a", "/", "C", "a", "r", "a", "c", "a", "s">>
      [] z = "America/Santiago" -> <<"A", "m", "e", "r", "i", "c", "a", "/", "S", "a", "n", "t", "i", "a", "g", "o">>
      [] z = "America/Montevideo" -> <<"A", "m", "e", "r", "i", "c", "a", "/", "M", "o", "n", "t", "e", "v", "i", "d", "e", "o">>
      [] z = "America/Asuncion" -> <<"A", "m", "e", "r", "i", "c", "a", "/", "A", "s", "u", "n", "c", "i", "o", "n">>
      [] z = "America/La_Paz" -> <<"A", "m", "e", "r", "i", "c", "a", "/", "L", "a", "_", "P", "a", "z">>
      [] z = "America/Port_of_Spain" -> <<"A", "m", "e", "r", "i", "c", "a", "/", "P", "o", "r", "t", "_", "o", "f", "_", "S", "p", "a", "i", "n">>
      [] z = "America" -> <<"A", "m", "e", "r", "i", "c", "a">>
      [] z = "Etc/UTC" -> <<"E", "t", "c", "/", "U", "T", "C">>
      [] z = "UTC" -> <<"U", "T", "C">>
      [] z = "Indian/Maldives" -> <<"I", "n", "d", "i", "a", "n", "/", "M", "a", "l", "d", "i", "v", "e", "s">>
      [] z = "africa/Abidjan" -> <<"a", "f", "r", "i", "c", "a", "/", "A", "b", "i", "d", "j", "a", "n">>
      [] z = "Asia" -> <<"A", "s", "i", "a">>
      [] z = "Europe/" -> <<"E", "u", "r", "o", "p", "e", "/">>
      [] z = "Invalid/Zone" -> <<"I", "n", "v", "a", "l", "i", "d", "/", "Z", "o", "n", "e">>
      [] OTHER -> <<>>

-----------------------------------------------------------------------------
(* MeetingPanel.jsx *)

\* the formatter left on the 12-hour clock
localHourMinute12h(utcMin, tz) ==
    LET wall == (utcMin + PlatformOffset(tz, utcMin)) % MinutesPerDay
    IN  [h |-> IF (wall \div 60) % 12 = 0 THEN 12 ELSE (wall \div 60) % 12, m |-> wall % 60]

\* localHourMinuteFromUtcMs: the hour and minute a wall clock in tz shows
localHourMinuteFromUtcMs(utcMin, tz) ==
    LET wall == (utcMin + PlatformOffset(tz, utcMin)) % MinutesPerDay
    IN  [h |-> FormatHour(wall \div 60), m |-> wall % 60]

\* the day taken to start at the present instant
UtcDayStartAtNow(nowMin) == nowMin

\* Date.UTC(y, m, d, 0, 0, 0) of the host clock's UTC date
UtcDayStart(nowMin) == (nowMin \div MinutesPerDay) * MinutesPerDay

\* the window closed at its end hour
SideWorkClosed(lm, workStart, workEnd) ==
    \/ (lm.h >= workStart /\ lm.h <= workEnd)
    \/ (lm.h = workEnd /\ lm.m = 0 /\ workEnd = 24)

\* the working test of one side at one slot (MeetingPanel.jsx:46-49)
SideWork(lm, workStart, workEnd) ==
    \/ (lm.h >= workStart /\ lm.h < workEnd)
    \/ (lm.h = workEnd /\ lm.m = 0 /\ workEnd = 24)

\* a slot flagged when either side is working
SlotAtEither(i, utcDayStart, zone, localZone, workStart, workEnd) ==
    LET slotStart == utcDayStart + i * SlotMinutes
        slotEnd   == slotStart + SlotMinutes
        localLM   == localHourMinuteFromUtcMs(slotStart, localZone)
        otherLM   == localHourMinuteFromUtcMs(slotStart, zone)
        localWork == SideWork(localLM, workStart, workEnd)
        otherWork == SideWork(otherLM, workStart, workEnd)
    IN  [i |-> i, slotStart |-> slotStart, slotEnd |-> slotEnd,
         localLM |-> localLM, otherLM |-> otherLM,
         localWork |-> localWork, otherWork |-> otherWork,
         overlap |-> localWork \/ otherWork]

\* one slot's record, i in 0..95
SlotAt(i, utcDayStart, zone, localZone, workStart, workEnd) ==
    LET slotStart == utcDayStart + i * SlotMinutes
        slotEnd   == slotStart + SlotMinutes
        localLM   == localHourMinuteFromUtcMs(slotStart, localZone)
        otherLM   == localHourMinuteFromUtcMs(slotStart, zone)
        localWork == SideWork(localLM, workStart, workEnd)
        otherWork == SideWork(otherLM, workStart, workEnd)
    IN  [i |-> i, slotStart |-> slotStart, slotEnd |-> slotEnd,
         localLM |-> localLM, otherLM |-> otherLM,
         localWork |-> localWork, otherWork |-> otherWork,
         overlap |-> localWork /\ otherWork]

\* the loop run with `i <= 96`
SlotsOneMore(utcDayStart, zone, localZone, workStart, workEnd) ==
    [k \in 1..(SlotsPerDay + 1) |->
        SlotAt(k - 1, utcDayStart, zone, localZone, workStart, workEnd)]

\* the slots memo: the loop pushes slot 0, 1, ..., 95
Slots(utcDayStart, zone, localZone, workStart, workEnd) ==
    [k \in 1..SlotsPerDay |->
        SlotAt(k - 1, utcDayStart, zone, localZone, workStart, workEnd)]

\* the body of the forEach of the overlapSegments memo on slot s:
\* st = [segs, cur], cur is <<>> for null or <<segment>>
ScanStep(st, s) ==
    IF s.overlap
    THEN IF st.cur = <<>>
         THEN [segs |-> st.segs, cur |-> <<[startIdx |-> s.i, endIdx |-> s.i]>>]
         ELSE [segs |-> st.segs, cur |-> <<[startIdx |-> st.cur[1].startIdx, endIdx |-> s.i]>>]
    ELSE IF st.cur # <<>>
         THEN [segs |-> Append(st.segs, st.cur[1]), cur |-> <<>>]
         ELSE st

\* e, with v evaluated first (operator arguments are evaluated on demand;
\* a loop evaluates its state at every iteration)
Force(v, e) == IF v = v THEN e ELSE e

\* the forEach over slots[lo..hi] in index order: the iterations lo..mid,
\* then the iterations mid+1..hi from the state those leave
RECURSIVE ScanRange(_, _, _, _)
ScanRange(slots, lo, hi, st) ==
    IF lo > hi THEN st
    ELSE IF lo = hi THEN ScanStep(st, slots[lo])
    ELSE LET mid  == (lo + hi) \div 2
             left == ScanRange(slots, lo, mid, st)
         IN  Force(left, ScanRange(slots, mid + 1, hi, left))

\* the scan without the push after the loop
ScanCloseForgotten(st) == st.segs

\* the closing `if (cur) segs.push(cur)` after the loop
ScanClose(st) == IF st.cur # <<>> THEN Append(st.segs, st.cur[1]) ELSE st.segs

\* the overlapSegments memo
OverlapSegments(slots) ==
    ScanClose(ScanRange(slots, 1, Len(slots), [segs |-> <<>>, cur |-> <<>>]))

\* the threshold tested with `>`
HasFull3hStrict(segs) ==
    \E k \in 1..Len(segs) : (segs[k].endIdx - segs[k].startIdx + 1) > (3 * 4)

\* hasFull3h (MeetingPanel.jsx:74)
HasFull3h(segs) ==
    \E k \in 1..Len(segs) : (segs[k].endIdx - segs[k].startIdx + 1) >= (3 * 4)

\* the test of the loop of earliestFull3h (MeetingPanel.jsx:79)
LongEnough(seg) == (seg.endIdx - seg.startIdx + 1) >= 12

\* earliestFull3h: the loop returns at the first long-enough segment in list
\* order; <<>> stands for null, <<t>> for the start instant t
RECURSIVE EarliestFrom(_, _, _)
EarliestFrom(segs, k, utcDayStart) ==
    IF k > Len(segs) THEN <<>>
    ELSE IF LongEnough(segs[k])
         THEN <<utcDayStart + segs[k].startIdx * SlotMinutes>>
         ELSE EarliestFrom(segs, k + 1, utcDayStart)

\* the start of the longest long-enough segment instead of the first
EarliestFull3hLongest(segs, utcDayStart) ==
    IF \E k \in 1..Len(segs) : LongEnough(segs[k])
    THEN LET k == CHOOSE j \in 1..Len(segs) :
                    \A l \in 1..Len(segs) :
                        segs[l].endIdx - segs[l].startIdx <= segs[j].endIdx - segs[j].startIdx
         IN  <<utcDayStart + segs[k].startIdx * SlotMinutes>>
    ELSE <<>>

EarliestFull3h(segs, utcDayStart) == EarliestFrom(segs, 1, utcDayStart)

\* toLocaleString(..., hour: 'numeric', minute: '2-digit', hour12: true)
ToLocaleTime12(utcMin, tz) ==
    LET wall == (utcMin + PlatformOffset(tz, utcMin)) % MinutesPerDay
        h    == wall \div 60
    IN  [hour |-> IF h % 12 = 0 THEN 12 ELSE h % 12,
         minute |-> wall % 60,
         pm |-> h >= 12]

\* the `{earliestFull3h && (...)}` block: rendered when the value is truthy
StartTexts(earliest, zone, localZone) ==
    IF earliest # <<>> /\ earliest[1] # 0
    THEN <<[local |-> ToLocaleTime12(earliest[1], localZone),
            other |-> ToLocaleTime12(earliest[1], zone)]>>
    ELSE <<>>

Unmounted ==
    [mounted |-> FALSE, renderedAt |-> 0, utcDayStart |-> 0, slots |-> <<>>,
     overlapSegments |-> <<>>, hasFull3h |-> FALSE, earliestFull3h |-> <<>>,
     message |-> "", startTexts |-> <<>>]

\* what a render of MeetingPanel derives from its slots memo
PanelFromSlots(slots, utcDayStart, zone, localZone, nowMin) ==
    LET segs     == OverlapSegments(slots)
        full     == HasFull3h(segs)
        earliest == EarliestFull3h(segs, utcDayStart)
    IN  [mounted |-> TRUE, renderedAt |-> nowMin, utcDayStart |-> utcDayStart,
         slots |-> slots, overlapSegments |-> segs, hasFull3h |-> full,
         earliestFull3h |-> earliest,
         message |-> IF full THEN "at least one full 3-hour overlap"
                             ELSE "No full 3-hour overlap",
         startTexts |-> StartTexts(earliest, zone, localZone)]

\* the formatter localHourMinuteFromUtcMs builds throws a RangeError for an
\* id the platform rejects; the slots memo asks for the local zone first,
\* at slot 0, and nothing in MeetingPanel catches
SlotsThrow(zone, localZone) == IntlRejects(localZone) \/ IntlRejects(zone)

\* the error caught inside the memo, which then yields no slot
MeetingPanelCaught(zone, localZone, workStart, workEnd, nowMin) ==
    IF SlotsThrow(zone, localZone)
    THEN PanelFromSlots(<<>>, UtcDayStart(nowMin), "Africa/Abidjan", "Africa/Abidjan", nowMin)
    ELSE PanelFromSlots(Slots(UtcDayStart(nowMin), zone, localZone, workStart, workEnd),
                        UtcDayStart(nowMin), zone, localZone, nowMin)

\* one render of MeetingPanel with the given props at the instant nowMin; a
\* render that throws computes and shows nothing
MeetingPanel(zone, localZone, workStart, workEnd, nowMin) ==
    IF SlotsThrow(zone, localZone)
    THEN Unmounted
    ELSE PanelFromSlots(Slots(UtcDayStart(nowMin), zone, localZone, workStart, workEnd),
                        UtcDayStart(nowMin), zone, localZone, nowMin)

\* the error that leaves a render of App: the one MeetingPanel throws, which
\* no error boundary catches
RenderError(target, localZone, before) ==
    IF before = "" /\ target # "" /\ SlotsThrow(target, localZone)
    THEN "RangeError" ELSE before

\* what App renders in the panel's place: `{meetingTarget && <MeetingPanel/>}`
RenderPanel(target, localZone, ww, nowMin) ==
    IF target = "" THEN Unmounted
    ELSE MeetingPanel(target, localZone, ww.start, ww.end, nowMin)

-----------------------------------------------------------------------------
(* timeUtils.js *)

\* getAllTimeZones: the platform's enumeration (the fallback list of an old
\* browser is one more possible value of it)
getAllTimeZones == enumeration

\* Math.round(x / d) for d > 0: the nearest integer, halves rounded up
MathRoundDiv(x, d) == (2 * x + d) \div (2 * d)

\* tzOffsetMinutes(timeZone, now): the wall-clock fields of `now` in the zone,
\* to whole seconds, read back as if they were UTC fields, minus now, in
\* minutes.  An h24 platform prints the hour after midnight as 24, which
\* Date.UTC carries into the next day.
tzOffsetMinutes(timeZone, at) ==
    LET wall    == at.min + PlatformOffset(timeZone, at.min)
        dayMin  == (wall \div MinutesPerDay) * MinutesPerDay
        h       == FormatHour((wall % MinutesPerDay) \div 60)
        min     == wall % 60
        s       == at.ms \div 1000
        \* utcMs - now.getTime(), in ms
        diffMs  == (dayMin + h * 60 + min - at.min) * 60000 + s * 1000 - at.ms
    IN  MathRoundDiv(diffMs, 60000)

\* String.prototype.startsWith on character sequences
StartsWith(cs, pre) ==
    /\ Len(cs) >= Len(pre)
    /\ \A k \in 1..Len(pre) : cs[k] = pre[k]

\* String.prototype.includes on character sequences
Includes(cs, tok) ==
    \E off \in 0..(Len(cs) - Len(tok)) :
        \A k \in 1..Len(tok) : cs[off + k] = tok[k]

SouthTokens ==
    {<<"A", "r", "g", "e", "n", "t", "i", "n", "a">>,
     <<"S", "a", "o", "_", "P", "a", "u", "l", "o">>,
     <<"B", "o", "g", "o", "t", "a">>,
     <<"L", "i", "m", "a">>,
     <<"C", "a", "r", "a", "c", "a", "s">>,
     <<"S", "a", "n", "t", "i", "a", "g", "o">>,
     <<"M", "o", "n", "t", "e", "v", "i", "d", "e", "o">>,
     <<"A", "s", "u", "n", "c", "i", "o", "n">>,
     <<"L", "a", "_", "P", "a", "z">>}

\* the rule without the Pacific/ prefix
continentOfNoPacific(tz) ==
    LET cs == Chars(tz)
    IN  IF StartsWith(cs, <<"A", "f", "r", "i", "c", "a", "/">>) THEN "Africa"
        ELSE IF StartsWith(cs, <<"A", "n", "t", "a", "r", "c", "t", "i", "c", "a", "/">>) THEN "Antarctica"
        ELSE IF StartsWith(cs, <<"A", "s", "i", "a", "/">>) THEN "Asia"
        ELSE IF StartsWith(cs, <<"A", "u", "s", "t", "r", "a", "l", "i", "a", "/">>) THEN "Australia"
        ELSE IF StartsWith(cs, <<"E", "u", "r", "o", "p", "e", "/">>) THEN "Europe"
        ELSE IF StartsWith(cs, <<"A", "m", "e", "r", "i", "c", "a", "/">>)
             THEN IF \E k \in SouthTokens : Includes(cs, k)
                  THEN "South America" ELSE "North America"
        ELSE "Other"

\* continentOf(tz)
continentOf(tz) ==
    LET cs == Chars(tz)
    IN  IF StartsWith(cs, <<"A", "f", "r", "i", "c", "a", "/">>) THEN "Africa"
        ELSE IF StartsWith(cs, <<"A", "n", "t", "a", "r", "c", "t", "i", "c", "a", "/">>) THEN "Antarctica"
        ELSE IF StartsWith(cs, <<"A", "s", "i", "a", "/">>) THEN "Asia"
        ELSE IF StartsWith(cs, <<"A", "u", "s", "t", "r", "a", "l", "i", "a", "/">>)
                \/ StartsWith(cs, <<"P", "a", "c", "i", "f", "i", "c", "/">>) THEN "Australia"
        ELSE IF StartsWith(cs, <<"E", "u", "r", "o", "p", "e", "/">>) THEN "Europe"
        ELSE IF StartsWith(cs, <<"A", "m", "e", "r", "i", "c", "a", "/">>)
             THEN IF \E k \in SouthTokens : Includes(cs, k)
                  THEN "South America" ELSE "North America"
        ELSE "Other"

\* the collation order of the characters zone ids are made of: punctuation
\* before letters, letters in alphabetical order whatever their case
CollationOrder ==
    <<"_", "-", "/",
      "a", "b", "c", "d", "e", "f", "g", "h", "i", "j", "k", "l", "m", "n", "o", "p", "q", "r", "s", "t", "u", "v", "w", "x", "y", "z">>

UpperLetters ==
    <<"A", "B", "C", "D", "E", "F", "G", "H", "I", "J", "K", "L", "M", "N", "O", "P", "Q", "R", "S", "T", "U", "V", "W", "X", "Y", "Z">>

IsUpper(c) == \E k \in 1..Len(UpperLetters) : UpperLetters[k] = c

ToLower(c) ==
    IF IsUpper(c)
    THEN CollationOrder[3 + (CHOOSE k \in 1..Len(UpperLetters) : UpperLetters[k] = c)]
    ELSE c

Weight(c) == CHOOSE k \in 1..Len(CollationOrder) : CollationOrder[k] = ToLower(c)

\* comparison of two character sequences from position k on: first by the
\* letters, the shorter string first when one is a prefix of the other
RECURSIVE ComparePrimary(_, _, _)
ComparePrimary(a, b, k) ==
    IF k > Len(a) /\ k > Len(b) THEN 0
    ELSE IF k > Len(a) THEN 0 - 1
    ELSE IF k > Len(b) THEN 1
    ELSE IF Weight(a[k]) < Weight(b[k]) THEN 0 - 1
    ELSE IF Weight(a[k]) > Weight(b[k]) THEN 1
    ELSE ComparePrimary(a, b, k + 1)

\* then, the letters being equal, by case: lower case first
RECURSIVE CompareCase(_, _, _)
CompareCase(a, b, k) ==
    IF k > Len(a) THEN 0
    ELSE IF a[k] = b[k] THEN CompareCase(a, b, k + 1)
    ELSE IF IsUpper(b[k]) THEN 0 - 1 ELSE 1

\* a.localeCompare(b): negative, zero or positive
localeCompare(a, b) ==
    LET p == ComparePrimary(Chars(a), Chars(b), 1)
    IN  IF p # 0 THEN p ELSE CompareCase(Chars(a), Chars(b), 1)

\* the comparator without its tie-break
CompareZonesOffsetOnly(a, b) == a.offset - b.offset

\* the comparator of buildZonesList's sort
CompareZones(a, b) ==
    IF a.offset - b.offset # 0 THEN a.offset - b.offset
    ELSE localeCompare(a.tz, b.tz)

\* Array.prototype.sort is stable: an element goes after every element that
\* does not compare greater than it
RECURSIVE InsertSorted(_, _)
InsertSorted(sorted, e) ==
    IF sorted = <<>> THEN <<e>>
    ELSE IF CompareZones(sorted[Len(sorted)], e) <= 0 THEN Append(sorted, e)
    ELSE Append(InsertSorted(SubSeq(sorted, 1, Len(sorted) - 1), e), sorted[Len(sorted)])

RECURSIVE SortFrom(_, _, _)
SortFrom(arr, k, sorted) ==
    IF k > Len(arr) THEN sorted ELSE SortFrom(arr, k + 1, InsertSorted(sorted, arr[k]))

ArraySort(arr) == SortFrom(arr, 1, <<>>)

\* the entry buildZonesList makes for one id
ZoneEntry(tz, at) ==
    [tz |-> tz, offset |-> tzOffsetMinutes(tz, at), cont |-> continentOf(tz)]

\* buildZonesList() has no try/catch: the RangeError tzOffsetMinutes raises
\* for an id of the list leaves the map, and the function
BuildThrows(ids) == \E k \in 1..Len(ids) : IntlRejects(ids[k])

\* buildZonesList() run on the list `ids` at the instant `at`
buildZonesList(ids, at) ==
    ArraySort([k \in 1..Len(ids) |-> ZoneEntry(ids[k], at)])

-----------------------------------------------------------------------------
(* App.jsx *)

\* a value localStorage holds: setItem stores the string given
Stored(text) == [present |-> TRUE, text |-> text]

\* a stored value: getItem gives null for a key never set
Absent == [present |-> FALSE, text |-> <<>>]

\* the tokens of JSON.stringify of the strings q[k..]: each string between
\* quotes (zone ids hold no character that needs an escape), a comma
\* between two strings
RECURSIVE StringifyItems(_, _)
StringifyItems(q, k) ==
    IF k > Len(q) THEN <<>>
    ELSE (IF k > 1 THEN <<",">> ELSE <<>>) \o <<"\"", q[k], "\"">> \o StringifyItems(q, k + 1)

\* JSON.stringify(pinned), as the sequence of its tokens
JSONStringify(q) == <<"[">> \o StringifyItems(q, 1) \o <<"]">>

\* the strings of a comma-separated list of quoted strings, from token k on,
\* added to acc; ok is FALSE where JSON.parse throws a SyntaxError
RECURSIVE ParseItems(_, _, _)
ParseItems(t, k, acc) ==
    IF k + 2 > Len(t) \/ t[k] # "\"" \/ t[k + 2] # "\"" \/ t[k + 1] \in {"[", "]", ",", "\""}
    THEN [ok |-> FALSE, value |-> <<>>]
    ELSE IF k + 2 = Len(t) THEN [ok |-> TRUE, value |-> Append(acc, t[k + 1])]
    ELSE IF t[k + 3] # "," THEN [ok |-> FALSE, value |-> <<>>]
    ELSE ParseItems(t, k + 4, Append(acc, t[k + 1]))

\* JSON.parse of a text that is an array of strings, or not JSON at all
JSONParse(text) ==
    IF Len(text) < 2 \/ text[1] # "[" \/ text[Len(text)] # "]"
    THEN [ok |-> FALSE, value |-> <<>>]
    ELSE IF Len(text) = 2 THEN [ok |-> TRUE, value |-> <<>>]
    ELSE ParseItems(SubSeq(text, 2, Len(text) - 1), 1, <<>>)

\* the initial theme: localStorage.getItem('wc_theme') || 'light'
InitialTheme(store) ==
    IF store.wc_theme.present /\ store.wc_theme.text # <<>> /\ store.wc_theme.text # <<"">>
    THEN store.wc_theme.text[1] ELSE "light"

\* the initial pinned list: JSON.parse(getItem('favZones') || '[]'), [] when
\* the parse throws
InitialPinned(store) ==
    LET text   == IF store.favZones.present /\ store.favZones.text # <<>>
                  THEN store.favZones.text ELSE <<"[", "]">>
        parsed == JSONParse(text)
    IN  IF parsed.ok THEN parsed.value ELSE <<>>

\* String.prototype.toLowerCase on character sequences
ToLowerCase(cs) == [k \in 1..Len(cs) |-> ToLower(cs[k])]

\* String.prototype.trim: the spaces at both ends removed
RECURSIVE Trim(_)
Trim(cs) ==
    IF cs = <<>> THEN cs
    ELSE IF cs[1] = " " THEN Trim(Tail(cs))
    ELSE IF cs[Len(cs)] = " " THEN Trim(SubSeq(cs, 1, Len(cs) - 1))
    ELSE cs

\* tz.replace('_', ' '): a string pattern replaces the first match only
ReplaceUnderscore(cs) ==
    IF \E k \in 1..Len(cs) : cs[k] = "_"
    THEN LET first == CHOOSE k \in 1..Len(cs) :
                         cs[k] = "_" /\ \A j \in 1..(k - 1) : cs[j] # "_"
         IN  [k \in 1..Len(cs) |-> IF k = first THEN " " ELSE cs[k]]
    ELSE cs

\* Array.prototype.includes
ArrayIncludes(arr, x) == \E k \in 1..Len(arr) : arr[k] = x

\* filterContinent.toLowerCase() === 'all', on the values the state takes
\* (the initial 'all', the labels of the buttons)
IsAllFilter(fc) == fc \in {"all", "All"}

\* (Array.prototype.filter is SelectSeq: the elements that pass, in order)

\* the test of the byContinent filter
PassesContinent(z, fc) == IF IsAllFilter(fc) THEN TRUE ELSE z.cont = fc

\* the test of the byQuery filter, q trimmed and in lower case
PassesQuery(z, q) ==
    \/ Includes(ToLowerCase(Chars(z.tz)), q)
    \/ Includes(ToLowerCase(ReplaceUnderscore(Chars(z.tz))), q)

\* the pinned items put in the order they were pinned in
FilterZonesPinOrder(zs, pins, fc, qry) ==
    LET q          == ToLowerCase(Trim(qry))
        InCont(z)  == PassesContinent(z, fc)
        InQuery(z) == PassesQuery(z, q)
        IsPinned(z) == ArrayIncludes(pins, z.tz)
        NotPinned(z) == ~ArrayIncludes(pins, z.tz)
        byContinent == SelectSeq(zs, InCont)
        byQuery     == IF q # <<>> THEN SelectSeq(byContinent, InQuery) ELSE byContinent
        shownPins   == SelectSeq(pins, LAMBDA id : \E k \in 1..Len(byQuery) : byQuery[k].tz = id)
        pinnedItems == [k \in 1..Len(shownPins) |->
                           byQuery[CHOOSE j \in 1..Len(byQuery) : byQuery[j].tz = shownPins[k]]]
    IN  pinnedItems \o SelectSeq(byQuery, NotPinned)

\* the filteredZones memo
FilterZones(zs, pins, fc, qry) ==
    LET q          == ToLowerCase(Trim(qry))
        InCont(z)  == PassesContinent(z, fc)
        InQuery(z) == PassesQuery(z, q)
        IsPinned(z) == ArrayIncludes(pins, z.tz)
        NotPinned(z) == ~ArrayIncludes(pins, z.tz)
        byContinent == SelectSeq(zs, InCont)
        byQuery     == IF q # <<>> THEN SelectSeq(byContinent, InQuery) ELSE byContinent
        pinnedItems == SelectSeq(byQuery, IsPinned)
        others      == SelectSeq(byQuery, NotPinned)
    IN  pinnedItems \o others

filteredZones == FilterZones(zones, pinned, filterContinent, query)

\* the labels of the continent buttons
continents ==
    {"All", "Africa", "Antarctica", "Asia", "Australia", "Europe", "North America",
     "South America"}

\* Array.prototype.indexOf: the first index of x, 0 when absent (the code's -1)
IndexOf(arr, x) ==
    IF ArrayIncludes(arr, x)
    THEN CHOOSE k \in 1..Len(arr) : arr[k] = x /\ \A j \in 1..(k - 1) : arr[j] # x
    ELSE 0

\* splice(idx, 1): the element at idx removed
SpliceOne(arr, idx) == SubSeq(arr, 1, idx - 1) \o SubSeq(arr, idx + 1, Len(arr))

\* the updater pushing without looking for the zone
togglePinAlwaysPush(prev, zone) == Append(prev, zone)

\* the updater of togglePin: the list setPinned receives
togglePin(prev, zone) ==
    LET idx == IndexOf(prev, zone)
    IN  IF idx >= 1 THEN SpliceOne(prev, idx) ELSE Append(prev, zone)

\* the hours the two working-hours inputs are set to
WorkHourInputs == {0, 9, 17, 24}

\* the instants the host clock shows: every half day of the modelled days
ClockInstants ==
    {FirstDay * MinutesPerDay + k * HalfDay : k \in 0..(2 * MaxDays - 1)}

\* the platform's enumeration, in the alphabetical order Intl returns it
PlatformList ==
    <<"Africa/Abidjan", "Asia/Kathmandu", "Asia/Kolkata", "Atlantic/Reykjavik",
      "Europe/London", "Pacific/Fiji", "Pacific/Gambier", "Pacific/Noumea">>

\* the zones the browser may be set to (Intl.DateTimeFormat().resolvedOptions().timeZone)
LocalZones == {"Africa/Abidjan", "Asia/Kathmandu", "Pacific/Noumea"}

\* the ids of the cards on screen
CardIds == {zones[k].tz : k \in 1..Len(zones)}

\* nothing recorded of a direct use
NotCalled == [fn |-> "", arg |-> "", result |-> ""]

\* the preferences of a first visit once the two persisting effects of the
\* mount have run: nothing was stored, so the theme is 'light' and no zone is
\* pinned, and the effects have stored just that
FirstVisit ==
    /\ theme = InitialTheme([wc_theme |-> Absent, favZones |-> Absent])
    /\ pinned = InitialPinned([wc_theme |-> Absent, favZones |-> Absent])
    /\ filterContinent = "all"
    /\ query = <<>>
    /\ storage = [wc_theme |-> Stored(<<theme>>), favZones |-> Stored(JSONStringify(pinned))]
    /\ effects = {}
    /\ called = NotCalled
    /\ uncaught = ""

Init ==
    /\ hourCycle \in HourCycles
    /\ enumeration = PlatformList
    /\ now \in [min : ClockInstants, ms : {0}]
    /\ userTimezone \in LocalZones
    /\ zones = <<>>
    /\ meetingTarget = ""
    /\ workWindow = [start |-> 9, end |-> 17]
    /\ panel = Unmounted
    /\ FirstVisit

\* the mount effect: setZones(buildZonesList()).  An error thrown by an
\* effect is not caught by any boundary: React unmounts the whole tree.
LoadZones ==
    /\ uncaught = ""
    /\ zones = <<>>
    /\ IF BuildThrows(getAllTimeZones)
       THEN /\ uncaught' = "RangeError"
            /\ zones' = zones
            /\ panel' = Unmounted
       ELSE /\ uncaught' = RenderError(meetingTarget, userTimezone, uncaught)
            /\ zones' = buildZonesList(getAllTimeZones, now)
            /\ panel' = RenderPanel(meetingTarget, userTimezone, workWindow, now.min)
    /\ UNCHANGED <<hourCycle, enumeration, now, userTimezone, meetingTarget, workWindow,
                   prefs, called>>

\* a card's "Quick 3h overlap" button: setMeetingTarget(z.tz)
ShowMeeting(z) ==
    /\ uncaught = ""
    /\ z \in CardIds
    /\ meetingTarget' = z
    /\ panel' = RenderPanel(z, userTimezone, workWindow, now.min)
    /\ uncaught' = RenderError(z, userTimezone, uncaught)
    /\ UNCHANGED <<hourCycle, enumeration, now, userTimezone, zones, workWindow,
                   prefs, called>>

\* the panel's close button: setMeetingTarget(null)
CloseMeeting ==
    /\ uncaught = ""
    /\ meetingTarget # ""
    /\ meetingTarget' = ""
    /\ panel' = RenderPanel("", userTimezone, workWindow, now.min)
    /\ UNCHANGED <<hourCycle, enumeration, now, userTimezone, zones, workWindow,
                   prefs, called, uncaught>>

\* the first working-hours input
SetWorkStart(v) ==
    /\ uncaught = ""
    /\ workWindow' = [workWindow EXCEPT !.start = v]
    /\ panel' = RenderPanel(meetingTarget, userTimezone, workWindow', now.min)
    /\ uncaught' = RenderError(meetingTarget, userTimezone, uncaught)
    /\ UNCHANGED <<hourCycle, enumeration, now, userTimezone, zones, meetingTarget,
                   prefs, called>>

\* the second working-hours input
SetWorkEnd(v) ==
    /\ uncaught = ""
    /\ workWindow' = [workWindow EXCEPT !.end = v]
    /\ panel' = RenderPanel(meetingTarget, userTimezone, workWindow', now.min)
    /\ uncaught' = RenderError(meetingTarget, userTimezone, uncaught)
    /\ UNCHANGED <<hourCycle, enumeration, now, userTimezone, zones, meetingTarget,
                   prefs, called>>

Next ==
    \/ LoadZones
    \/ \E z \in ZoneIds : ShowMeeting(z)
    \/ CloseMeeting
    \/ \E v \in WorkHourInputs : SetWorkStart(v)
    \/ \E v \in WorkHourInputs : SetWorkEnd(v)

Spec == Init /\ [][Next]_vars

-----------------------------------------------------------------------------
(* The reduction of the panel on arbitrary overlap signals *)

\* the signals: SigEdge free slots at each end of the day, one value between
SignalParts == [head : [1..SigEdge -> BOOLEAN], fill : BOOLEAN, tail : [1..SigEdge -> BOOLEAN]]

SignalBit(sig, k) ==
    IF k <= SigEdge THEN sig.head[k]
    ELSE IF k > SlotsPerDay - SigEdge THEN sig.tail[k - (SlotsPerDay - SigEdge)]
    ELSE sig.fill

\* the slots of a day whose overlap flags are the signal's
SignalSlots(sig, utcDayStart) ==
    [k \in 1..SlotsPerDay |->
        [i |-> k - 1,
         slotStart |-> utcDayStart + (k - 1) * SlotMinutes,
         slotEnd |-> utcDayStart + (k - 1) * SlotMinutes + SlotMinutes,
         overlap |-> SignalBit(sig, k)]]

InitScan ==
    /\ hourCycle = "h23"
    /\ enumeration = PlatformList
    /\ now = [min |-> FirstDay * MinutesPerDay, ms |-> 0]
    /\ userTimezone = "Africa/Abidjan"
    /\ zones = buildZonesList(getAllTimeZones, now)
    /\ meetingTarget = "Africa/Abidjan"
    /\ workWindow = [start |-> 9, end |-> 17]
    /\ panel = Unmounted
    /\ FirstVisit

\* the panel's first render derives segments, flag and start from the slots
\* of a signal
ReduceSignal(sig) ==
    /\ ~panel.mounted
    /\ panel' = PanelFromSlots(SignalSlots(sig, UtcDayStart(now.min)), UtcDayStart(now.min),
                               meetingTarget, userTimezone, now.min)
    /\ UNCHANGED <<hourCycle, enumeration, now, userTimezone, zones, meetingTarget, workWindow,
                   prefs, called, uncaught>>

NextScan == \E sig \in SignalParts : ReduceSignal(sig)

SpecScan == InitScan /\ [][NextScan]_vars

-----------------------------------------------------------------------------
(* The catalog builder on arbitrary enumerations *)

\* the sequences of n ids
RECURSIVE SeqsOfLen(_)
SeqsOfLen(n) ==
    IF n = 0 THEN {<<>>}
    ELSE {Append(q, z) : q \in SeqsOfLen(n - 1), z \in ZoneIds}

\* the enumerations: 1..MaxEnum distinct ids in any order
Enumerations ==
    UNION {{q \in SeqsOfLen(n) : \A i, j \in 1..n : i # j => q[i] # q[j]} : n \in 1..MaxEnum}

InitCatalog ==
    /\ hourCycle \in HourCycles
    /\ enumeration \in Enumerations
    /\ now \in [min : ClockInstants, ms : {0}]
    /\ userTimezone = "Asia/Kolkata"
    /\ zones = <<>>
    /\ meetingTarget = ""
    /\ workWindow = [start |-> 9, end |-> 17]
    /\ panel = Unmounted
    /\ FirstVisit

NextCatalog == LoadZones

SpecCatalog == InitCatalog /\ [][NextCatalog]_vars

-----------------------------------------------------------------------------
(* The offset of one zone at instants with seconds and milliseconds *)

\* the milliseconds past the minute of the instant the catalog is built at:
\* both sides of a second, of the half minute and of the minute
SubMinuteParts == {0, 1, 499, 500, 999, 1000, 29999, 30000, 30001, 59999}

\* the minutes the host clock shows when the catalog is built: the start,
\* the inside and the end of the hour that follows each clock instant
BuildInstants == {t + d : t \in ClockInstants, d \in {0, 29, 59, 60}}

InitOffset ==
    /\ hourCycle \in HourCycles
    /\ enumeration \in {<<z>> : z \in KnownZones}
    /\ now \in [min : BuildInstants, ms : SubMinuteParts]
    /\ userTimezone = "Asia/Kolkata"
    /\ zones = <<>>
    /\ meetingTarget = ""
    /\ workWindow = [start |-> 9, end |-> 17]
    /\ panel = Unmounted
    /\ FirstVisit

NextOffset == LoadZones

SpecOffset == InitOffset /\ [][NextOffset]_vars

-----------------------------------------------------------------------------
(* The preferences of App: pins, theme, filters, and their persistence *)

\* the platform's enumeration of a small zone database
PrefsList == <<"Africa/Abidjan", "America/New_York", "Atlantic/Reykjavik", "Pacific/Fiji">>

\* what an earlier visit may have left under 'favZones': nothing, a list
\* (one of its zones no longer in the catalog), a text cut short
StoredPins ==
    {Absent,
     Stored(JSONStringify(<<"Pacific/Fiji", "Asia/Kolkata">>)),
     Stored(<<"[", "\"", "Pacific/Fiji">>)}

\* what an earlier visit may have left under 'wc_theme'
StoredThemes == {Absent, Stored(<<"dark">>)}

\* the texts typed in the search box
QueryInputs ==
    {<<>>,
     <<" ">>,
     <<"n", "e", "w", " ", "y", "o", "r", "k">>,
     <<" ", "P", "a">>,
     <<"R">>}

\* the state useState creates from the store; the effects of the first
\* render are still to run
InitPrefs ==
    /\ hourCycle \in HourCycles
    /\ enumeration = PrefsList
    /\ now = [min |-> FirstDay * MinutesPerDay, ms |-> 0]
    /\ userTimezone = "Asia/Kolkata"
    /\ zones = <<>>
    /\ meetingTarget = ""
    /\ workWindow = [start |-> 9, end |-> 17]
    /\ panel = Unmounted
    /\ storage \in [wc_theme : StoredThemes, favZones : StoredPins]
    /\ theme = InitialTheme(storage)
    /\ pinned = InitialPinned(storage)
    /\ filterContinent = "all"
    /\ query = <<>>
    /\ effects = {"theme", "pinned"}
    /\ called = NotCalled
    /\ uncaught = ""

\* the ids of the cards shown
ShownIds == {filteredZones[k].tz : k \in 1..Len(filteredZones)}

\* a card's star: onTogglePin={() => togglePin(z.tz)}; the new list makes the
\* persisting effect of `pinned` run after the render
TogglePin(z) ==
    /\ uncaught = ""
    /\ effects = {}
    /\ z \in ShownIds
    /\ pinned' = togglePin(pinned, z)
    /\ effects' = {"pinned"}
    /\ panel' = RenderPanel(meetingTarget, userTimezone, workWindow, now.min)
    /\ uncaught' = RenderError(meetingTarget, userTimezone, uncaught)
    /\ UNCHANGED <<hourCycle, enumeration, now, userTimezone, zones, meetingTarget,
                   workWindow, theme, filterContinent, query, storage, called>>

\* the theme button: setTheme(t => t === 'dark' ? 'light' : 'dark')
ToggleTheme ==
    /\ uncaught = ""
    /\ effects = {}
    /\ theme' = IF theme = "dark" THEN "light" ELSE "dark"
    /\ effects' = {"theme"}
    /\ panel' = RenderPanel(meetingTarget, userTimezone, workWindow, now.min)
    /\ uncaught' = RenderError(meetingTarget, userTimezone, uncaught)
    /\ UNCHANGED <<hourCycle, enumeration, now, userTimezone, zones, meetingTarget,
                   workWindow, pinned, filterContinent, query, storage, called>>

\* a continent button: setFilterContinent(c)
SetFilterContinent(c) ==
    /\ uncaught = ""
    /\ effects = {}
    /\ filterContinent' = c
    /\ panel' = RenderPanel(meetingTarget, userTimezone, workWindow, now.min)
    /\ uncaught' = RenderError(meetingTarget, userTimezone, uncaught)
    /\ UNCHANGED <<hourCycle, enumeration, now, userTimezone, zones, meetingTarget,
                   workWindow, theme, pinned, query, storage, effects, called>>

\* the search box: onChange={setQuery}
SetQuery(text) ==
    /\ uncaught = ""
    /\ effects = {}
    /\ query' = text
    /\ panel' = RenderPanel(meetingTarget, userTimezone, workWindow, now.min)
    /\ uncaught' = RenderError(meetingTarget, userTimezone, uncaught)
    /\ UNCHANGED <<hourCycle, enumeration, now, userTimezone, zones, meetingTarget,
                   workWindow, theme, pinned, filterContinent, storage, effects, called>>

\* the effect of `theme` that never stores it
PersistNeverTheme(store, pending, th, pins) ==
    [wc_theme |-> store.wc_theme,
     favZones |-> IF "pinned" \in pending THEN Stored(JSONStringify(pins)) ELSE store.favZones]

\* what the pending effects leave in the store: setItem('wc_theme', theme)
\* and setItem('favZones', JSON.stringify(pinned))
Persist(store, pending, th, pins) ==
    [wc_theme |-> IF "theme" \in pending THEN Stored(<<th>>) ELSE store.wc_theme,
     favZones |-> IF "pinned" \in pending THEN Stored(JSONStringify(pins)) ELSE store.favZones]

\* the effects of the last render run, before anything else happens
RunEffects ==
    /\ uncaught = ""
    /\ effects # {}
    /\ storage' = Persist(storage, effects, theme, pinned)
    /\ effects' = {}
    /\ UNCHANGED <<hourCycle, enumeration, now, userTimezone, zones, meetingTarget,
                   workWindow, panel, theme, pinned, filterContinent, query, called, uncaught>>

\* the page reloaded: every useState initialiser runs again on the store
Reload ==
    /\ effects = {}
    /\ theme' = InitialTheme(storage)
    /\ pinned' = InitialPinned(storage)
    /\ zones' = <<>>
    /\ filterContinent' = "all"
    /\ query' = <<>>
    /\ meetingTarget' = ""
    /\ workWindow' = [start |-> 9, end |-> 17]
    /\ panel' = Unmounted
    /\ effects' = {"theme", "pinned"}
    /\ uncaught' = ""
    /\ UNCHANGED <<hourCycle, enumeration, now, userTimezone, storage, called>>

\* pins and theme, toggled, stored and read back by a reload
NextPrefs ==
    \/ LoadZones
    \/ \E z \in KnownZones : TogglePin(z)
    \/ ToggleTheme
    \/ RunEffects
    \/ Reload

SpecPrefs == InitPrefs /\ [][NextPrefs]_vars

\* the list of cards under pins, continent buttons and search texts, on a
\* visit that finds two pinned zones in the store
InitFilter ==
    /\ InitPrefs
    /\ storage = [wc_theme |-> Absent,
                  favZones |-> Stored(JSONStringify(<<"Pacific/Fiji", "Asia/Kolkata">>))]

NextFilter ==
    \/ LoadZones
    \/ \E z \in KnownZones : TogglePin(z)
    \/ \E c \in continents : SetFilterContinent(c)
    \/ \E text \in QueryInputs : SetQuery(text)
    \/ RunEffects

SpecFilter == InitFilter /\ [][NextFilter]_vars

-----------------------------------------------------------------------------
(* continentOf called on any string *)

\* the strings continentOf is called with: ids of every group, ids of the
\* Americas with and without a South-American token, and strings that are
\* no zone id
ClassifyInputs ==
    KnownZones \cup
    {"Antarctica/Troll", "Australia/Sydney", "America/Argentina/Buenos_Aires",
     "America/Bogota", "America/Lima", "America/Caracas", "America/Santiago",
     "America/Montevideo", "America/Asuncion", "America/La_Paz",
     "America/Port_of_Spain", "America", "Etc/UTC", "UTC", "Indian/Maldives",
     "africa/Abidjan", "Asia", "Europe/", "Invalid/Zone"}

InitClassify ==
    /\ hourCycle \in HourCycles
    /\ enumeration = PlatformList
    /\ now \in [min : ClockInstants, ms : {0}]
    /\ userTimezone = "Asia/Kolkata"
    /\ zones = <<>>
    /\ meetingTarget = ""
    /\ workWindow = [start |-> 9, end |-> 17]
    /\ panel = Unmounted
    /\ FirstVisit

\* continentOf(tz), called by an importer of timeUtils
CallContinentOf(tz) ==
    /\ called.fn = ""
    /\ called' = [fn |-> "continentOf", arg |-> tz, result |-> continentOf(tz)]
    /\ UNCHANGED <<hourCycle, enumeration, now, userTimezone, zones, meetingTarget,
                   workWindow, panel, prefs, uncaught>>

NextClassify == \E tz \in ClassifyInputs : CallContinentOf(tz)

SpecClassify == InitClassify /\ [][NextClassify]_vars

-----------------------------------------------------------------------------
(* ZoneCard.jsx: the offset line of a card, for any offset *)

\* the decimal digits
DigitChars == <<"0", "1", "2", "3", "4", "5", "6", "7", "8", "9">>

\* String(n) for a natural number n
RECURSIVE NumberToString(_)
NumberToString(n) ==
    IF n < 10 THEN <<DigitChars[n + 1]>>
    ELSE Append(NumberToString(n \div 10), DigitChars[(n % 10) + 1])

\* s.padStart(2, '0')
PadStart2(cs) == IF Len(cs) < 2 THEN <<"0">> \o cs ELSE cs

\* Math.abs
MathAbs(x) == IF x < 0 THEN 0 - x ELSE x

\* the text of the zone-sub line:
\* UTC{offset >= 0 ? '+' : ''}{Math.floor(Math.abs(offset) / 60)}:{String(Math.abs(offset) % 60).padStart(2, '0')}
OffsetLabel(offset) ==
    <<"U", "T", "C">>
        \o (IF offset >= 0 THEN <<"+">> ELSE <<>>)
        \o NumberToString(MathAbs(offset) \div 60)
        \o <<":">>
        \o PadStart2(NumberToString(MathAbs(offset) % 60))

\* the offsets a card is rendered with
CardOffsets == (0 - 720)..840

InitCard ==
    /\ hourCycle = "h23"
    /\ enumeration = PlatformList
    /\ now = [min |-> FirstDay * MinutesPerDay, ms |-> 0]
    /\ userTimezone = "Asia/Kolkata"
    /\ zones = <<>>
    /\ meetingTarget = ""
    /\ workWindow = [start |-> 9, end |-> 17]
    /\ panel = Unmounted
    /\ FirstVisit

\* <ZoneCard offset={offset} .../> rendered by a parent
RenderCard(offset) ==
    /\ called.fn = ""
    /\ called' = [fn |-> "ZoneCard", arg |-> offset, result |-> OffsetLabel(offset)]
    /\ UNCHANGED <<hourCycle, enumeration, now, userTimezone, zones, meetingTarget,
                   workWindow, panel, prefs, uncaught>>

NextCard == \E offset \in CardOffsets : RenderCard(offset)

SpecCard == InitCard /\ [][NextCard]_vars

-----------------------------------------------------------------------------
(* MeetingPanel mounted with any zone and local zone as props *)

InitProps ==
    /\ hourCycle \in HourCycles
    /\ enumeration = PlatformList
    /\ now \in [min : ClockInstants, ms : {0}]
    /\ userTimezone \in LocalZones \cup {UnknownZone}
    /\ zones = <<>>
    /\ meetingTarget = ""
    /\ workWindow = [start |-> 9, end |-> 17]
    /\ panel = Unmounted
    /\ FirstVisit

\* <MeetingPanel zone={zone} localZone={userTimezone} .../> rendered by a parent
MountPanel(zone) ==
    /\ uncaught = ""
    /\ meetingTarget = ""
    /\ meetingTarget' = zone
    /\ panel' = RenderPanel(zone, userTimezone, workWindow, now.min)
    /\ uncaught' = RenderError(zone, userTimezone, uncaught)
    /\ UNCHANGED <<hourCycle, enumeration, now, userTimezone, zones, workWindow,
                   prefs, called>>

NextProps == \E zone \in ZoneIds \cup {UnknownZone} : MountPanel(zone)

SpecProps == InitProps /\ [][NextProps]_vars

-----------------------------------------------------------------------------
(* The catalog builder on enumerations that hold an id the formatter rejects *)

\* the sequences of n ids of the set ids
RECURSIVE SeqsOver(_, _)
SeqsOver(ids, n) ==
    IF n = 0 THEN {<<>>}
    ELSE {Append(q, z) : q \in SeqsOver(ids, n - 1), z \in ids}

\* 1..MaxEnum distinct ids, known or not, in any order
EnumerationsWithUnknown ==
    UNION {{q \in SeqsOver(ZoneIds \cup {UnknownZone}, n) :
                \A i, j \in 1..n : i # j => q[i] # q[j]} : n \in 1..MaxEnum}

InitBuild ==
    /\ hourCycle \in HourCycles
    /\ enumeration \in EnumerationsWithUnknown
    /\ now \in [min : ClockInstants, ms : {0}]
    /\ userTimezone = "Asia/Kolkata"
    /\ zones = <<>>
    /\ meetingTarget = ""
    /\ workWindow = [start |-> 9, end |-> 17]
    /\ panel = Unmounted
    /\ FirstVisit

NextBuild == LoadZones

SpecBuild == InitBuild /\ [][NextBuild]_vars

-----------------------------------------------------------------------------
(* Properties of the overlap panel *)

\* the slot of index i (0..95) of the rendered panel
SlotOf(i) == panel.slots[i + 1]

\* the indices a segment covers
SegSlots(seg) == seg.startIdx..seg.endIdx

\* C1: a rendered panel holds exactly 96 slots, in index order 0..95; slot i
\* starts at the reference UTC midnight + i*15 minutes and ends 15 minutes
\* later, so each slot ends where the next starts, slot 0 starts at the
\* midnight and slot 95 ends 24 hours after it.
C1_SlotsCoverDay ==
    panel.mounted =>
        /\ Len(panel.slots) = 96
        /\ panel.utcDayStart % (24 * 60) = 0
        /\ panel.utcDayStart <= panel.renderedAt
        /\ panel.renderedAt < panel.utcDayStart + 24 * 60
        /\ \A i \in 0..95 :
            /\ SlotOf(i).i = i
            /\ SlotOf(i).slotStart = panel.utcDayStart + i * 15
            /\ SlotOf(i).slotEnd = SlotOf(i).slotStart + 15
            /\ i < 95 => SlotOf(i).slotEnd = SlotOf(i + 1).slotStart
        /\ SlotOf(0).slotStart = panel.utcDayStart
        /\ SlotOf(95).slotEnd = panel.utcDayStart + 24 * 60

\* C1 witness: a panel rendered for a zone whose offset changes within the day,
\* with a window whose start is after its end
C1_Witness ==
    /\ panel.mounted
    /\ meetingTarget = "Europe/London"
    /\ workWindow.start > workWindow.end
    /\ Len(panel.slots) = 96

\* C2: the segments are maximal runs of the overlap signal: each has
\* startIdx <= endIdx, they are in ascending order with at least one
\* non-overlapping slot between consecutive ones, every slot inside a segment
\* overlaps, and together they cover exactly the overlapping slots (a run
\* reaching slot 95 included).
C2_SegmentsAreMaximalRuns ==
    panel.mounted =>
        LET segs == panel.overlapSegments
        IN  /\ \A k \in 1..Len(segs) :
                /\ 0 <= segs[k].startIdx
                /\ segs[k].startIdx <= segs[k].endIdx
                /\ segs[k].endIdx <= 95
                /\ \A i \in SegSlots(segs[k]) : SlotOf(i).overlap
            /\ \A k \in 1..(Len(segs) - 1) :
                /\ segs[k].endIdx + 1 < segs[k + 1].startIdx
                /\ \E i \in (segs[k].endIdx + 1)..(segs[k + 1].startIdx - 1) : ~SlotOf(i).overlap
            /\ UNION {SegSlots(segs[k]) : k \in 1..Len(segs)}
                 = {i \in 0..95 : SlotOf(i).overlap}

\* C2 witness: several runs, the last of them reaching slot 95
C2_Witness ==
    /\ panel.mounted
    /\ Len(panel.overlapSegments) >= 3
    /\ SlotOf(95).overlap
    /\ ~SlotOf(94).overlap
    /\ panel.overlapSegments[Len(panel.overlapSegments)] = [startIdx |-> 95, endIdx |-> 95]

\* C3: hasFull3h is true exactly when some segment lasts at least 180
\* minutes, i.e. holds at least 12 slots.
C3_HasFull3hIffLongSegment ==
    panel.mounted =>
        (panel.hasFull3h <=>
            \E k \in 1..Len(panel.overlapSegments) :
                LET seg == panel.overlapSegments[k]
                IN  (seg.endIdx - seg.startIdx + 1) * 15 >= 180)

\* C3 witness: the only segment holds exactly 12 slots, and the flag is set
C3_Witness ==
    /\ panel.mounted
    /\ Len(panel.overlapSegments) = 1
    /\ panel.overlapSegments[1].endIdx - panel.overlapSegments[1].startIdx + 1 = 12
    /\ panel.hasFull3h

\* the segments that last at least 3 hours
LongSegments ==
    {k \in 1..Len(panel.overlapSegments) :
        panel.overlapSegments[k].endIdx - panel.overlapSegments[k].startIdx + 1 >= 12}

\* C4: a start is shown exactly when hasFull3h is true, and it is then the
\* UTC start of the long-enough segment with the smallest start index, even
\* when a later segment is longer; otherwise no start is reported.
C4_EarliestQualifyingStart ==
    panel.mounted =>
        /\ (panel.startTexts # <<>>) <=> panel.hasFull3h
        /\ (panel.earliestFull3h # <<>>) <=> panel.hasFull3h
        /\ panel.hasFull3h =>
            \E k \in LongSegments :
                /\ \A l \in LongSegments : panel.overlapSegments[k].startIdx
                                            <= panel.overlapSegments[l].startIdx
                /\ panel.earliestFull3h
                     = <<panel.utcDayStart + panel.overlapSegments[k].startIdx * 15>>
                /\ panel.startTexts
                     = <<[local |-> ToLocaleTime12(panel.earliestFull3h[1], userTimezone),
                          other |-> ToLocaleTime12(panel.earliestFull3h[1], meetingTarget)]>>

\* C4 witness: two long-enough segments, the later one longer
C4_Witness ==
    /\ panel.mounted
    /\ Len(panel.overlapSegments) = 2
    /\ LongSegments = {1, 2}
    /\ panel.overlapSegments[2].endIdx - panel.overlapSegments[2].startIdx
         > panel.overlapSegments[1].endIdx - panel.overlapSegments[1].startIdx
    /\ panel.earliestFull3h = <<panel.utcDayStart + panel.overlapSegments[1].startIdx * 15>>

\* the minute of the day a wall clock in tz shows at the instant t
WallMinute(tz, t) == (t + PlatformOffset(tz, t)) % (24 * 60)

\* what a slot's local reading says of a side: the hour read is the wall
\* clock's hour (24 for the hour after midnight on an h24 platform)
ReadsWallClock(lm, tz, t) ==
    /\ lm.m = WallMinute(tz, t) % 60
    /\ lm.h % 24 = WallMinute(tz, t) \div 60
    /\ lm.h \in 0..24

\* the working rule of the claim
InWindow(lm) ==
    \/ (workWindow.start <= lm.h /\ lm.h < workWindow.end)
    \/ (workWindow.end = 24 /\ lm.h = 24 /\ lm.m = 0)

\* C5: at every slot a side is working exactly when its local hour h at the
\* slot's UTC start satisfies startHour <= h < endHour, or endHour = 24 and
\* the local time reads 24:00; the slot overlaps exactly when both sides are
\* working.  23:45 is inside a window ending at 24; a local hour equal to
\* endHour < 24 is outside.
C5_WorkingAndOverlapRule ==
    panel.mounted =>
        \A i \in 0..95 :
            LET s == SlotOf(i)
            IN  /\ ReadsWallClock(s.localLM, userTimezone, s.slotStart)
                /\ ReadsWallClock(s.otherLM, meetingTarget, s.slotStart)
                /\ s.localWork <=> InWindow(s.localLM)
                /\ s.otherWork <=> InWindow(s.otherLM)
                /\ s.overlap <=> (s.localWork /\ s.otherWork)
                /\ (workWindow.end = 24 /\ workWindow.start <= 23
                        /\ s.localLM.h = 23 /\ s.localLM.m = 45) => s.localWork
                /\ (workWindow.end < 24 /\ s.localLM.h = workWindow.end) => ~s.localWork
                /\ (workWindow.end < 24 /\ s.otherLM.h = workWindow.end) => ~s.otherWork

\* C5 witness: a window ending at 24 with a slot at 23:45 local time that is
\* working, and a slot read as 24:00 that is working too
C5_Witness ==
    /\ panel.mounted
    /\ workWindow.end = 24
    /\ \E i \in 0..95 : SlotOf(i).localLM = [h |-> 23, m |-> 45] /\ SlotOf(i).localWork
    /\ \E i \in 0..95 : SlotOf(i).otherLM = [h |-> 24, m |-> 0] /\ SlotOf(i).otherWork
    /\ \E i \in 0..95 : SlotOf(i).overlap

\* the side tz stays at the offset off through the rendered day
ZoneFixedAt(tz, off) ==
    \A i \in 0..95 : PlatformOffset(tz, panel.utcDayStart + i * 15) = off

\* a panel rendered for the local zone at UTC+0, the other zone at offset
\* off, and the window {9,17}
Scenario(off) ==
    /\ panel.mounted
    /\ workWindow = [start |-> 9, end |-> 17]
    /\ ZoneFixedAt(userTimezone, 0)
    /\ ZoneFixedAt(meetingTarget, off)

\* C6: scenario 1, both zones at UTC+0, windows {9,17}: exactly one segment,
\* slots 36..67 (09:00-17:00 UTC, 32 slots), hasFull3h true, and the earliest
\* start reads 9:00 AM in both zones.
C6_Scenario1 ==
    Scenario(0) =>
        /\ panel.overlapSegments = <<[startIdx |-> 36, endIdx |-> 67]>>
        /\ 67 - 36 + 1 = 32
        /\ SlotOf(36).slotStart = panel.utcDayStart + 9 * 60
        /\ SlotOf(67).slotEnd = panel.utcDayStart + 17 * 60
        /\ panel.hasFull3h
        /\ panel.message = "at least one full 3-hour overlap"
        /\ panel.earliestFull3h = <<panel.utcDayStart + 9 * 60>>
        /\ panel.startTexts = <<[local |-> [hour |-> 9, minute |-> 0, pm |-> FALSE],
                                 other |-> [hour |-> 9, minute |-> 0, pm |-> FALSE]]>>

\* C6 witness: the scenario with two different zones at UTC+0, rendered at
\* midday
C6_Witness ==
    /\ Scenario(0)
    /\ userTimezone # meetingTarget
    /\ panel.renderedAt > panel.utcDayStart
    /\ panel.hasFull3h

\* C7: scenario 2, UTC+0 and UTC+12, windows {9,17}: no slot has both sides
\* working, the segment list is empty and hasFull3h is false.
C7_Scenario2 ==
    Scenario(12 * 60) =>
        /\ \A i \in 0..95 : ~SlotOf(i).overlap
        /\ \A i \in 0..95 : ~(SlotOf(i).localWork /\ SlotOf(i).otherWork)
        /\ panel.overlapSegments = <<>>
        /\ ~panel.hasFull3h
        /\ panel.message = "No full 3-hour overlap"
        /\ panel.startTexts = <<>>

\* C7 witness: the scenario, each side working at some slot of the day
C7_Witness ==
    /\ Scenario(12 * 60)
    /\ \E i \in 0..95 : SlotOf(i).localWork
    /\ \E i \in 0..95 : SlotOf(i).otherWork
    /\ panel.overlapSegments = <<>>

\* C8 as stated: scenario 3, zoneA at UTC+0 and zoneB at UTC+5:30, windows
\* {9,17}: a single segment of 10 slots that reads 14:30-17:00 in zoneA's
\* local time, and hasFull3h false.
C8_Scenario3AsStated ==
    Scenario(330) =>
        /\ Len(panel.overlapSegments) = 1
        /\ panel.overlapSegments[1].endIdx - panel.overlapSegments[1].startIdx + 1 = 10
        /\ SlotOf(panel.overlapSegments[1].startIdx).localLM = [h |-> 14, m |-> 30]
        /\ SlotOf(panel.overlapSegments[1].endIdx).localLM = [h |-> 16, m |-> 45]
        /\ ~panel.hasFull3h

\* C8 amended: scenario 3 gives a single segment of 10 slots (150 minutes),
\* slots 36..45, that reads 09:00-11:30 in zoneA's (UTC+0) local time and
\* 14:30-17:00 in zoneB's (UTC+5:30); segments exist but hasFull3h is false.
C8_Scenario3 ==
    Scenario(330) =>
        /\ panel.overlapSegments = <<[startIdx |-> 36, endIdx |-> 45]>>
        /\ (45 - 36 + 1) * 15 = 150
        /\ SlotOf(36).localLM = [h |-> 9, m |-> 0]
        /\ SlotOf(45).localLM = [h |-> 11, m |-> 15]
        /\ SlotOf(45).slotEnd = panel.utcDayStart + 11 * 60 + 30
        /\ SlotOf(36).otherLM = [h |-> 14, m |-> 30]
        /\ SlotOf(45).otherLM = [h |-> 16, m |-> 45]
        /\ WallMinute(meetingTarget, SlotOf(45).slotEnd) = 17 * 60
        /\ ~panel.hasFull3h
        /\ panel.message = "No full 3-hour overlap"
        /\ panel.startTexts = <<>>

\* C8 witness: the scenario rendered, with its segment and no start shown
C8_Witness ==
    /\ Scenario(330)
    /\ Len(panel.overlapSegments) = 1
    /\ panel.startTexts = <<>>

\* both sides are working at the instant t, by the panel's own slot test
BothWorkAt(t) ==
    /\ SideWork(localHourMinuteFromUtcMs(t, userTimezone), workWindow.start, workWindow.end)
    /\ SideWork(localHourMinuteFromUtcMs(t, meetingTarget), workWindow.start, workWindow.end)

\* some 3 hours (12 consecutive quarter hours) of shared working time lie in
\* the n quarter hours that follow the instant `from`
SharedThreeHours(from, n) ==
    \E j \in 0..(n - 12) : \A d \in 0..11 : BothWorkAt(from + (j + d) * 15)

\* C9: when the two sides share at least 3 contiguous hours of working time
\* within the 24 hours that follow the render (the shorter of the horizons
\* the README and the panel advertise), across the UTC midnight or not, the
\* panel reports a full 3-hour overlap.
C9_FindsOverlapInHorizon ==
    (panel.mounted /\ SharedThreeHours(panel.renderedAt, 96)) => panel.hasFull3h

-----------------------------------------------------------------------------
(* Properties of the catalog *)

\* the orders a list can be enumerated in
Reorderings(q) ==
    {[k \in 1..Len(q) |-> q[f[k]]] :
        f \in {g \in [1..Len(q) -> 1..Len(q)] :
                 \A i, j \in 1..Len(q) : i # j => g[i] # g[j]}}

\* C10: the catalog holds one entry per enumerated id, sorted non-decreasing
\* by offset with equal offsets ordered by id, and it is the same whatever
\* the order of the enumeration.
C10_CatalogSortedWhateverTheOrder ==
    zones # <<>> =>
        /\ Len(zones) = Len(enumeration)
        /\ {zones[k].tz : k \in 1..Len(zones)} = {enumeration[k] : k \in 1..Len(enumeration)}
        /\ \A k \in 1..(Len(zones) - 1) :
            \/ zones[k].offset < zones[k + 1].offset
            \/ /\ zones[k].offset = zones[k + 1].offset
               /\ localeCompare(zones[k].tz, zones[k + 1].tz) < 0
        /\ \A q \in Reorderings(enumeration) : buildZonesList(q, now) = zones

\* C10 witness: two ids with the same offset enumerated in the order opposite
\* to their order by id, and a third id
C10_Witness ==
    /\ Len(zones) = 3
    /\ \E i, j \in 1..3 :
        /\ i < j
        /\ zones[i].offset = zones[j].offset
        /\ \E a, b \in 1..3 : a > b /\ enumeration[a] = zones[i].tz /\ enumeration[b] = zones[j].tz

\* the documented ranges of a work window
ValidWindow(w) == w.start \in 0..23 /\ w.end \in 1..24 /\ w.start < w.end

\* C12: the overlap computation rejects an invalid work window (start outside
\* 0..23, end outside 1..24, or start >= end): it signals an error instead of
\* returning slots and segments, in particular instead of a day of
\* non-working slots with no segment.
C12_RejectsInvalidWindow ==
    (meetingTarget # "" /\ ~ValidWindow(workWindow)) =>
        /\ uncaught # ""
        /\ ~panel.mounted
        /\ panel.slots = <<>>
        /\ panel.message = ""

\* C13: when the local time of either zone cannot be resolved, the panel
\* yields no slot and no segment, and the failure is an error outcome of its
\* own, not the "no full 3-hour overlap" outcome.
C13_ResolutionFailureIsAnError ==
    (meetingTarget # "" /\ (IntlRejects(userTimezone) \/ IntlRejects(meetingTarget))) =>
        /\ panel.slots = <<>>
        /\ panel.overlapSegments = <<>>
        /\ uncaught = "RangeError"
        /\ ~panel.mounted
        /\ panel.message # "No full 3-hour overlap"

\* C13 witness: the panel mounted for a zone the platform accepts, in a
\* local zone it rejects: the error has left the render
C13_Witness ==
    /\ meetingTarget # ""
    /\ ~IntlRejects(meetingTarget)
    /\ IntlRejects(userTimezone)
    /\ uncaught = "RangeError"

\* C14: for a zone whose true displacement from UTC at the instant is k whole
\* minutes, k in -720..840, the offset resolved is exactly k, whatever the
\* seconds and milliseconds of the instant.
C14_OffsetIsExact ==
    \A k \in 1..Len(zones) :
        PlatformOffset(zones[k].tz, now.min) \in (0 - 720)..840 =>
            /\ zones[k].offset = PlatformOffset(zones[k].tz, now.min)
            /\ zones[k].offset \in (0 - 720)..840

\* the same on a platform that prints the hour after midnight as 00
C14_OffsetIsExactOnH23 == hourCycle = "h23" => C14_OffsetIsExact

\* the labels of the classifier, as the code spells them
ContinentLabels ==
    {"Africa", "Antarctica", "Asia", "Australia", "Europe", "North America",
     "South America", "Other"}

\* the label the rule of the claim gives each string
ExpectedLabel(tz) ==
    CASE tz \in {"Africa/Abidjan"} -> "Africa"
      [] tz \in {"Antarctica/Troll"} -> "Antarctica"
      [] tz \in {"Asia/Kathmandu", "Asia/Kolkata"} -> "Asia"
      [] tz \in {"Australia/Sydney", "Pacific/Fiji", "Pacific/Gambier", "Pacific/Noumea"} -> "Australia"
      [] tz \in {"Europe/London", "Europe/"} -> "Europe"
      [] tz \in {"America/Sao_Paulo", "America/Argentina/Buenos_Aires", "America/Bogota",
                 "America/Lima", "America/Caracas", "America/Santiago", "America/Montevideo",
                 "America/Asuncion", "America/La_Paz"} -> "South America"
      [] tz \in {"America/New_York", "America/Port_of_Spain"} -> "North America"
      [] tz \in {"Atlantic/Reykjavik", "America", "Etc/UTC", "UTC", "Indian/Maldives",
                 "africa/Abidjan", "Asia", "Invalid/Zone"} -> "Other"

\* C15: the classifier is total and follows the prefix rule: Africa/,
\* Antarctica/, Asia/, Europe/ give those labels, Australia/ and Pacific/
\* give Australia, America/ gives South America when the id holds one of the
\* nine tokens and North America otherwise, and every other string, such as
\* "Invalid/Zone", gives Other without an error.
C15_ClassifyFollowsPrefixRule ==
    called.fn = "continentOf" =>
        /\ called.result \in ContinentLabels
        /\ called.result = ExpectedLabel(called.arg)
        /\ uncaught = ""

\* C15 witness: a string that is no zone id has been classified as Other
C15_Witness ==
    /\ called.fn = "continentOf"
    /\ called.arg = "Invalid/Zone"
    /\ called.result = "Other"

\* an entry of the catalog passes the continent filter and the search text
PassesFilters(z) ==
    /\ (filterContinent \in {"all", "All"} \/ z.cont = filterContinent)
    /\ LET q == ToLowerCase(Trim(query))
       IN  \/ q = <<>>
           \/ Includes(ToLowerCase(Chars(z.tz)), q)
           \/ Includes(ToLowerCase(ReplaceUnderscore(Chars(z.tz))), q)

\* the place of an entry in the catalog
CatalogIndex(z) == CHOOSE k \in 1..Len(zones) : zones[k] = z

\* C16: the displayed list holds exactly the catalog entries that pass the
\* continent filter and the search text, each once, every pinned entry
\* before every unpinned one, and the pinned entries among themselves, as
\* the unpinned ones, in the catalog's (offset, id) order; this after any
\* sequence of pin toggles.
C16_DisplayedListKeepsCatalogOrder ==
    LET shown    == filteredZones
        IsPin(z) == \E k \in 1..Len(pinned) : pinned[k] = z.tz
    IN  /\ {shown[k] : k \in 1..Len(shown)}
             = {zones[k] : k \in {j \in 1..Len(zones) : PassesFilters(zones[j])}}
        /\ \A i, j \in 1..Len(shown) : i # j => shown[i].tz # shown[j].tz
        /\ \A i, j \in 1..Len(shown) : (i < j /\ IsPin(shown[j])) => IsPin(shown[i])
        /\ \A i, j \in 1..Len(shown) :
               (i < j /\ (IsPin(shown[i]) <=> IsPin(shown[j]))) =>
                   /\ CatalogIndex(shown[i]) < CatalogIndex(shown[j])
                   /\ \/ shown[i].offset < shown[j].offset
                      \/ /\ shown[i].offset = shown[j].offset
                         /\ localeCompare(shown[i].tz, shown[j].tz) < 0

\* C16 witness: a search text that hides one card; of the three shown, two
\* are pinned, the later of the catalog pinned first, and one is not
C16_Witness ==
    /\ query = <<"R">>
    /\ Len(filteredZones) = 3
    /\ Len(zones) = 4
    /\ \E a, b \in 1..Len(pinned) :
          /\ a < b
          /\ \E i, j \in 1..3 :
                i < j /\ filteredZones[i].tz = pinned[b] /\ filteredZones[j].tz = pinned[a]
    /\ \E i \in 1..3 : \A k \in 1..Len(pinned) : pinned[k] # filteredZones[i].tz

\* the store holds the current pinned list and the current theme
StoreIsCurrent ==
    /\ storage.favZones = Stored(JSONStringify(pinned))
    /\ JSONParse(storage.favZones.text) = [ok |-> TRUE, value |-> pinned]
    /\ storage.wc_theme = Stored(<<theme>>)

\* C17: after any sequence of pin toggles and theme toggles, once the
\* effects of the change have run, the value stored under 'favZones' is the
\* current pinned list and the value under 'wc_theme' the current theme; the
\* store is read when the initial state is created, so a reload then gives
\* the same pinned list and the same theme.
C17_StoreFollowsPreferences ==
    /\ [](effects = {} => StoreIsCurrent)
    /\ [][Reload => (pinned' = pinned /\ theme' = theme)]_vars
    /\ [][(pinned' # pinned \/ theme' # theme) =>
              (effects = {} /\ storage' = storage /\ effects' # {})]_vars

\* C17 witness: three zones pinned and the theme dark, stored, on a page
\* that has been reloaded since (its catalog not built yet)
C17_Witness ==
    /\ effects = {}
    /\ Len(pinned) = 3
    /\ theme = "dark"
    /\ zones = <<>>
    /\ StoreIsCurrent

\* no zone twice in the list
NoDuplicates(q) == \A i, j \in 1..Len(q) : i # j => q[i] # q[j]

\* the zones of a list
Members(q) == {q[k] : k \in 1..Len(q)}

\* a list without the zone z, the others in their order
Without(q, z) == SelectSeq(q, LAMBDA x : x # z)

\* C18: the pinned list, without duplicates at the start, never has any;
\* togglePin(z) removes z when it is pinned and appends it at the end when it
\* is not, leaves the other zones and their order alone, and called twice
\* gives back the same set of pinned zones.
C18_TogglePinFlipsOneZone ==
    /\ [](NoDuplicates(pinned))
    /\ [][\A z \in KnownZones :
            TogglePin(z) =>
                /\ (z \in Members(pinned')) <=> (z \notin Members(pinned))
                /\ z \in Members(pinned) => pinned' = Without(pinned, z)
                /\ z \notin Members(pinned) => pinned' = Append(pinned, z)
                /\ Without(pinned', z) = Without(pinned, z)
                /\ Members(togglePin(pinned', z)) = Members(pinned)]_vars

\* C18 witness: the zone pinned first has been unpinned, the zone pinned
\* after it is now first, and another zone has been pinned since
C18_Witness ==
    /\ Len(pinned) >= 2
    /\ pinned[1] = "Asia/Kolkata"
    /\ "Pacific/Fiji" \notin Members(pinned)

\* the label that writes the sign and the magnitude of an offset
SignedLabel(o) ==
    <<"U", "T", "C">>
        \o (IF o >= 0 THEN <<"+">> ELSE <<"-">>)
        \o NumberToString((IF o < 0 THEN 0 - o ELSE o) \div 60)
        \o <<":">>
        \o PadStart2(NumberToString((IF o < 0 THEN 0 - o ELSE o) % 60))

\* C19: for every offset in -720..840 the card's offset label writes the
\* sign and the magnitude, 'UTC+H:MM' for an offset >= 0 and with a minus
\* sign for an offset < 0, so that offsets o and -o never share a label.
C19_LabelEncodesSignAndMagnitude ==
    called.fn = "ZoneCard" =>
        /\ called.result = SignedLabel(called.arg)
        /\ called.arg # 0 => OffsetLabel(0 - called.arg) # called.result

\* the labels of two different offsets differ
C19_LabelsDiffer ==
    called.fn = "ZoneCard" =>
        \A o \in CardOffsets : o # called.arg => OffsetLabel(o) # called.result

\* the build of the catalog has run, to its end or to an error
BuildHasRun == zones # <<>> \/ uncaught # ""

\* C11: when the formatter rejects some id of the enumeration, the build does
\* not abort: the catalog holds an entry for every other id and none for the
\* rejected one.
C11_SkipsRejectedIds ==
    (/\ BuildHasRun
     /\ \E k \in 1..Len(enumeration) : IntlRejects(enumeration[k])
     /\ \E k \in 1..Len(enumeration) : ~IntlRejects(enumeration[k])) =>
        /\ uncaught = ""
        /\ {zones[k].tz : k \in 1..Len(zones)}
             = {enumeration[k] : k \in {j \in 1..Len(enumeration) : ~IntlRejects(enumeration[j])}}
        /\ \A k \in 1..Len(zones) : ~IntlRejects(zones[k].tz)

====
